---- MODULE Spec2Model ----
(***************************************************************************)
(* The OBJ import command builder of io_xplane2blender                     *)
(* (importer/xplane_imp_cmd_builder.py): ImpCommandBuilder.build_cmd, one  *)
(* action per directive, and finalize_intermediate_blocks with             *)
(* IntermediateDatablock.build_mesh and                                    *)
(* IntermediateAnimation.apply_animation.                                  *)
(*                                                                         *)
(* Python objects that are shared by reference (an IntermediateAnimation   *)
(* is held both by its stack entry and by its node's animations_to_apply)  *)
(* live in `heap` and are referred to by their position in it.  A Python   *)
(* None is the empty tuple, a present optional value x is <<x>>, except    *)
(* for vectors, which are 3-tuples themselves.                             *)
(***************************************************************************)
EXTENDS Integers, Sequences, FiniteSets, TLC

VARIABLES
    vt_table,                 \* self.vt_table: [vertices, idxes]
    blocks,                   \* self._blocks, blocks[1] is INTER_ROOT
    heap,                     \* every IntermediateAnimation created so far
    anim_intermediate_stack,  \* self._anim_intermediate_stack
    anim_count,               \* self._anim_count
    last_axis,                \* self._last_axis
    host_calls,               \* calls made on the host by the last finalization
    frame_current,            \* bpy.context.scene.frame_current
    returned,                 \* what finalize_intermediate_blocks returned, if it did
    call,                     \* the last call made on the builder
    result,                   \* "ok", or the exception that call raised
    trace,                    \* the calls so far, while they form a tracked stream
    brackets                  \* per open ANIM_begin: the context depth it found and
                              \* the begin_new_frame calls made directly inside it

vars == <<vt_table, blocks, heap, anim_intermediate_stack, anim_count,
          last_axis, host_calls, frame_current, returned, call, result, trace,
          brackets>>

builder == <<vt_table, blocks, heap, anim_intermediate_stack, anim_count, last_axis>>

-----------------------------------------------------------------------------
(* Bounds of the model *)

MaxBlocks == 2      \* nodes besides INTER_ROOT
MaxKeys == 2        \* driver values, over all animations
MaxTrackKeys == 3   \* the same, in a stream that trace still follows
MaxBrackets == 2    \* nested ANIM_begin
MaxVerts == 1       \* VT directives
MaxIdxes == 2       \* IDX directives (and IDX10 while below it)

-----------------------------------------------------------------------------
(* Python values *)

None == <<>>
Some(x) == <<x>>

ANIM_TYPE_TRANSFORM == "transform"
ANIM_TYPE_SHOW == "show"
ANIM_TYPE_HIDE == "hide"

Abs(n) == IF n < 0 THEN -n ELSE n
Min(a, b) == IF a < b THEN a ELSE b
Max(a, b) == IF a > b THEN a ELSE b

\* seq[i] of Python: a negative i counts from the end
PyInRange(seq, i) == -Len(seq) <= i /\ i < Len(seq)
PyIndex(seq, i) == IF i < 0 THEN seq[Len(seq) + i + 1] ELSE seq[i + 1]

\* seq[a:b] of Python: negative bounds count from the end, all are clamped
PyClamp(seq, a) == IF a < 0 THEN Max(Len(seq) + a, 0) ELSE Min(a, Len(seq))
PySlice(seq, a, b) ==
    LET lo == PyClamp(seq, a)
        hi == PyClamp(seq, b)
    IN  IF lo < hi THEN SubSeq(seq, lo + 1, hi) ELSE <<>>

Reverse(seq) == [i \in 1..Len(seq) |-> seq[Len(seq) + 1 - i]]

\* mathutils.Vector arithmetic
VecAbs(v) == <<Abs(v[1]), Abs(v[2]), Abs(v[3])>>
VecScale(v, d) == <<v[1] * d, v[2] * d, v[3] * d>>
VecAdd(u, v) == <<u[1] + v[1], u[2] + v[2], u[3] + v[3]>>

-----------------------------------------------------------------------------
(* The data classes *)

IntermediateDataref(anim_type, loop, path, v1, v2, values) ==
    [anim_type |-> anim_type, loop |-> loop, path |-> path,
     show_hide_v1 |-> v1, show_hide_v2 |-> v2, values |-> values]

DefaultDataref == IntermediateDataref(ANIM_TYPE_TRANSFORM, 0, "", 0, 0, <<>>)

\* rotations is the defaultdict: a function from the axes used so far
IntermediateAnimation ==
    [locations |-> <<>>, rotations |-> <<>>, xp_dataref |-> DefaultDataref]

IntermediateDatablock(type, name, parent_info, start_idx, count) ==
    [datablock_type |-> type, name |-> name, parent_info |-> parent_info,
     start_idx |-> start_idx, count |-> count, animations_to_apply |-> <<>>]

VT(x, y, z, nx, ny, nz, s, t) ==
    [x |-> x, y |-> y, z |-> z, nx |-> nx, ny |-> ny, nz |-> nz, s |-> s, t |-> t]

root_intermediate_datablock ==
    IntermediateDatablock("EMPTY", "INTER_ROOT", None, None, None)

\* rotations[axis].append(d) on the defaultdict
RotAppend(rot, axis, d) ==
    [a \in DOMAIN rot \cup {axis} |->
        IF a = axis
        THEN (IF a \in DOMAIN rot THEN Append(rot[a], d) ELSE <<d>>)
        ELSE rot[a]]

-----------------------------------------------------------------------------
(* Names *)

NameSuffix == "_hash"
Pad3(n) == IF n < 10 THEN "00" \o ToString(n)
           ELSE IF n < 100 THEN "0" \o ToString(n) ELSE ToString(n)

RECURSIVE CountType(_, _)
CountType(bl, type) ==
    IF bl = <<>> THEN 0
    ELSE (IF Head(bl).datablock_type = type THEN 1 ELSE 0) + CountType(Tail(bl), type)

next_empty_name == "ImpEmpty." \o Pad3(CountType(blocks, "EMPTY")) \o NameSuffix
next_object_name == "ImpMesh." \o Pad3(CountType(blocks, "MESH")) \o NameSuffix

-----------------------------------------------------------------------------
(* The property accessors *)

\* mutant: the animation made last, whether its context is still open or not
top_animation_latest == IF heap = <<>> THEN None ELSE Some(Len(heap))

top_animation ==
    IF anim_intermediate_stack = <<>> THEN None
    ELSE Some(anim_intermediate_stack[Len(anim_intermediate_stack)].animation)

top_intermediate_datablock ==
    IF anim_intermediate_stack = <<>> THEN None
    ELSE Some(anim_intermediate_stack[Len(anim_intermediate_stack)].intermediate_datablock)

-----------------------------------------------------------------------------
(* The state after ImpCommandBuilder.__init__ *)

Init ==
    /\ vt_table = [vertices |-> <<>>, idxes |-> <<>>]
    /\ blocks = <<root_intermediate_datablock>>
    /\ heap = <<>>
    /\ anim_intermediate_stack = <<>>
    /\ anim_count = <<>>
    /\ last_axis = None
    /\ host_calls = <<>>
    /\ frame_current = 1
    /\ returned = None
    /\ call = [directive |-> "__init__", args |-> <<>>]
    /\ result = "ok"
    /\ trace = <<>>
    /\ brackets = <<>>

-----------------------------------------------------------------------------
(* The record of the calls.  An exception ends the import (the caller does   *)
(* not catch it), and finalize_intermediate_blocks is its last step: no      *)
(* directive follows either.  trace keeps the whole stream of calls while it *)
(* is one of the streams of Stream (one translation track, or one show/hide  *)
(* track, or a keyed rotation track followed by a static one, or one static  *)
(* shorthand, then finalization) and is Untracked from then on.              *)

Call(d, args) == [directive |-> d, args |-> args]
Untracked == <<Call("...", <<>>)>>

StreamStep(stage, d) ==
    CASE stage = "start" /\ d = "ANIM_begin" -> "begun"
      [] stage = "start" /\ d \in {"ANIM_show", "ANIM_hide"} -> "shown_bare"
      [] stage = "shown_bare" /\ d = "finalize" -> "done_shown_bare"
      [] stage = "begun" /\ d = "ANIM_trans_begin" -> "keys"
      [] stage = "begun" /\ d \in {"ANIM_show", "ANIM_hide"} -> "shown"
      [] stage = "keys" /\ d = "ANIM_trans_key" -> "keys"
      [] stage = "keys" /\ d = "ANIM_trans_end" -> "trans_ended"
      [] stage = "trans_ended" /\ d = "ANIM_end" -> "trans_closed"
      [] stage = "trans_closed" /\ d = "finalize" -> "done_trans"
      [] stage = "shown" /\ d = "ANIM_end" -> "shown_closed"
      [] stage \in {"shown", "shown_closed"} /\ d = "finalize" -> "done_shown"
      [] stage = "trans_ended" /\ d = "TRIS" -> "tris_after_end"
      [] stage = "begun" /\ d = "ANIM_rotate_begin" -> "rot_keys"
      [] stage = "rot_keys" /\ d = "ANIM_rotate_key" -> "rot_keys"
      [] stage = "rot_keys" /\ d = "ANIM_rotate_end" -> "rot_ended"
      [] stage = "rot_ended" /\ d = "ANIM_rotate" -> "rot_static"
      [] stage = "rot_static" /\ d = "ANIM_end" -> "rot_closed"
      [] stage = "rot_closed" /\ d = "finalize" -> "done_rot"
      [] stage = "begun" /\ d = "ANIM_trans" -> "static_t"
      [] stage = "static_t" /\ d = "finalize" -> "done_static_t"
      [] stage = "begun" /\ d = "ANIM_rotate" -> "static_r"
      [] stage = "static_r" /\ d = "finalize" -> "done_static_r"
      [] OTHER -> "off"

RECURSIVE Stream(_)
Stream(s) ==
    IF s = <<>> THEN "start"
    ELSE StreamStep(Stream(SubSeq(s, 1, Len(s) - 1)), s[Len(s)].directive)

Building == result = "ok" /\ call.directive # "finalize"

Recorded(d, args) ==
    /\ call' = Call(d, args)
    /\ trace' = IF Stream(Append(trace, Call(d, args))) = "off"
                THEN Untracked
                ELSE Append(trace, Call(d, args))

Called(d, args, res) == Recorded(d, args) /\ result' = res

-----------------------------------------------------------------------------
(* build_cmd: the table directives *)

VT_(v) ==
    /\ Building
    /\ Len(vt_table.vertices) < MaxVerts
    /\ vt_table' = [vt_table EXCEPT !.vertices = Append(@, v)]
    /\ Called("VT", <<v>>, "ok")
    /\ UNCHANGED <<blocks, heap, anim_intermediate_stack, anim_count, last_axis,
                   host_calls, frame_current, returned, brackets>>

IDX(i) ==
    /\ Building
    /\ Len(vt_table.idxes) < MaxIdxes
    /\ vt_table' = [vt_table EXCEPT !.idxes = Append(@, i)]
    /\ Called("IDX", <<i>>, "ok")
    /\ UNCHANGED <<blocks, heap, anim_intermediate_stack, anim_count, last_axis,
                   host_calls, frame_current, returned, brackets>>

\* mutant: the ten indices are put in front of the list
IDX10_front(args) ==
    /\ Building
    /\ Len(vt_table.idxes) < MaxIdxes
    /\ vt_table' = [vt_table EXCEPT !.idxes = args \o @]
    /\ Called("IDX10", args, "ok")
    /\ UNCHANGED <<blocks, heap, anim_intermediate_stack, anim_count, last_axis,
                   host_calls, frame_current, returned, brackets>>

IDX10(args) ==
    /\ Building
    /\ Len(vt_table.idxes) < MaxIdxes
    /\ vt_table' = [vt_table EXCEPT !.idxes = @ \o args]
    /\ Called("IDX10", args, "ok")
    /\ UNCHANGED <<blocks, heap, anim_intermediate_stack, anim_count, last_axis,
                   host_calls, frame_current, returned, brackets>>

\* mutant: a TRIS node always hangs under the root
tris_parent_root == root_intermediate_datablock

\* mutant: a TRIS node hangs under the node made last, mesh or not
tris_parent_latest == blocks[Len(blocks)]

\* the parent a TRIS node gets
tris_parent ==
    IF anim_intermediate_stack = <<>>
    THEN root_intermediate_datablock
    ELSE blocks[anim_intermediate_stack[Len(anim_intermediate_stack)]
                    .intermediate_datablock]

TRIS(start_idx, count, name_hint) ==
    LET parent == tris_parent
        intermediate_datablock ==
            IntermediateDatablock(
                "MESH",
                IF name_hint # "" THEN name_hint ELSE next_object_name,
                Some(parent.name), Some(start_idx), Some(count))
    IN  /\ Building
        /\ Len(blocks) <= MaxBlocks
        /\ blocks' = Append(blocks, intermediate_datablock)
        /\ Called("TRIS", <<start_idx, count, name_hint>>, "ok")
        /\ UNCHANGED <<vt_table, heap, anim_intermediate_stack, anim_count,
                       last_axis, host_calls, frame_current, returned, brackets>>

\* mutant: the unknown directive is passed over in silence
UnsupportedDirective_ignored(d) ==
    /\ Building
    /\ Called(d, <<>>, "ok")
    /\ UNCHANGED <<builder, host_calls, frame_current, returned, brackets>>

\* the final else branch: assert False
UnsupportedDirective(d) ==
    /\ Building
    /\ Called(d, <<>>, "AssertionError")
    /\ UNCHANGED <<builder, host_calls, frame_current, returned, brackets>>

-----------------------------------------------------------------------------
(* build_cmd: the brackets *)

ANIM_begin ==
    /\ Building
    /\ Len(anim_count) < MaxBrackets
    /\ anim_count' = Append(anim_count, 0)
    /\ brackets' = Append(brackets,
                          [depth |-> Len(anim_intermediate_stack), frames |-> 0])
    /\ Called("ANIM_begin", <<>>, "ok")
    /\ UNCHANGED <<vt_table, blocks, heap, anim_intermediate_stack, last_axis,
                   host_calls, frame_current, returned>>

\* mutant: the contexts are taken from the bottom of the stack
PopN_bottom(stack, n) ==
    IF n <= Len(stack)
    THEN [stack |-> SubSeq(stack, n + 1, Len(stack)), raised |-> "ok"]
    ELSE [stack |-> <<>>, raised |-> "IndexError"]

\* for i in range(n): stack.pop(); a pop from an empty deque raises IndexError
PopN(stack, n) ==
    IF n <= Len(stack)
    THEN [stack |-> SubSeq(stack, 1, Len(stack) - n), raised |-> "ok"]
    ELSE [stack |-> <<>>, raised |-> "IndexError"]

\* mutant: an ANIM_end with nothing to close is passed over in silence
ANIM_end_lenient ==
    /\ Building
    /\ IF anim_count = <<>>
       THEN /\ Called("ANIM_end", <<>>, "ok")
            /\ UNCHANGED <<builder, host_calls, frame_current, returned, brackets>>
       ELSE LET popped == PopN(anim_intermediate_stack, anim_count[Len(anim_count)])
            IN  /\ anim_count' = SubSeq(anim_count, 1, Len(anim_count) - 1)
                /\ anim_intermediate_stack' = popped.stack
                /\ brackets' = SubSeq(brackets, 1, Len(brackets) - 1)
                /\ Called("ANIM_end", <<>>, popped.raised)
                /\ UNCHANGED <<vt_table, blocks, heap, last_axis, host_calls,
                               frame_current, returned>>

ANIM_end ==
    /\ Building
    /\ IF anim_count = <<>>
       THEN /\ Called("ANIM_end", <<>>, "IndexError")
            /\ UNCHANGED <<builder, host_calls, frame_current, returned, brackets>>
       ELSE LET popped == PopN(anim_intermediate_stack, anim_count[Len(anim_count)])
            IN  /\ anim_count' = SubSeq(anim_count, 1, Len(anim_count) - 1)
                /\ anim_intermediate_stack' = popped.stack
                /\ brackets' = SubSeq(brackets, 1, Len(brackets) - 1)
                /\ Called("ANIM_end", <<>>, popped.raised)
                /\ UNCHANGED <<vt_table, blocks, heap, last_axis, host_calls,
                               frame_current, returned>>

-----------------------------------------------------------------------------
(* build_cmd: the animation directives *)

RECURSIVE TotalKeys(_)
TotalKeys(h) ==
    IF h = <<>> THEN 0 ELSE Len(Head(h).xp_dataref.values) + TotalKeys(Tail(h))

\* how many driver values the model lets a stream hold
KeyBound == IF trace = Untracked THEN MaxKeys ELSE MaxTrackKeys

\* mutant: a new empty always hangs under the root
frame_parent_root == root_intermediate_datablock

\* the parent begin_new_frame gives the new empty
frame_parent ==
    IF top_intermediate_datablock = None
    THEN root_intermediate_datablock
    ELSE blocks[top_intermediate_datablock[1]]

\* mutant: the outermost count is incremented
increment_count_outermost(counts) == [counts EXCEPT ![1] = @ + 1]

\* self._anim_count[-1] += 1
increment_count(counts) == [counts EXCEPT ![Len(counts)] = @ + 1]

\* mutant: the new animation is not put in the new node's pending list
begin_new_frame_unbound ==
    LET parent == frame_parent
        empt == IntermediateDatablock("EMPTY", next_empty_name,
                                      Some(parent.name), None, None)
        anim == Len(heap) + 1
        pushed == Append(anim_intermediate_stack,
                         [animation |-> anim,
                          intermediate_datablock |-> Len(blocks) + 1])
    IN  [blocks |-> Append(blocks, empt),
         heap |-> Append(heap, IntermediateAnimation),
         stack |-> pushed,
         anim_count |-> IF anim_count = <<>> THEN anim_count
                        ELSE increment_count(anim_count),
         raised |-> IF anim_count = <<>> THEN "IndexError" ELSE "ok"]

\* The local function begin_new_frame: what it leaves behind, and whether
\* self._anim_count[-1] += 1 raised (after the node and the context were made)
begin_new_frame ==
    LET parent == frame_parent
        empt == IntermediateDatablock("EMPTY", next_empty_name,
                                      Some(parent.name), None, None)
        anim == Len(heap) + 1
        pushed == Append(anim_intermediate_stack,
                         [animation |-> anim,
                          intermediate_datablock |-> Len(blocks) + 1])
    IN  IF anim_count = <<>>
        THEN [blocks |-> Append(blocks, empt),
              heap |-> Append(heap, IntermediateAnimation),
              stack |-> pushed,
              anim_count |-> anim_count,
              raised |-> "IndexError"]
        ELSE [blocks |-> Append(blocks,
                                [empt EXCEPT !.animations_to_apply = <<anim>>]),
              heap |-> Append(heap, IntermediateAnimation),
              stack |-> pushed,
              anim_count |-> increment_count(anim_count),
              raised |-> "ok"]

\* A track-opening directive: begin_new_frame, then the directive's assignments
\* to the new top animation (leaving it as `assigned`) unless begin_new_frame
\* raised
OpenTrack(assigned) ==
    LET f == begin_new_frame
    IN  /\ Building
        /\ Len(blocks) <= MaxBlocks
        /\ blocks' = f.blocks
        /\ anim_intermediate_stack' = f.stack
        /\ anim_count' = f.anim_count
        /\ heap' = IF f.raised = "ok"
                   THEN [f.heap EXCEPT ![Len(f.heap)] = assigned]
                   ELSE f.heap
        /\ result' = f.raised
        /\ brackets' = IF brackets = <<>> THEN brackets
                       ELSE [brackets EXCEPT ![Len(brackets)].frames = @ + 1]

ANIM_trans_begin(dataref_path) ==
    LET set(a) == [a EXCEPT !.xp_dataref =
                      IntermediateDataref(ANIM_TYPE_TRANSFORM, 0, dataref_path, 0, 0, <<>>)]
    IN  /\ OpenTrack(set(IntermediateAnimation))
        /\ Recorded("ANIM_trans_begin", <<dataref_path>>)
        /\ UNCHANGED <<vt_table, last_axis, host_calls, frame_current, returned>>

\* mutant: a key with no open context is dropped in silence
ANIM_trans_key_silent(value, location) ==
    /\ Building
    /\ IF top_animation = None
       THEN /\ Called("ANIM_trans_key", <<value, location>>, "ok")
            /\ UNCHANGED <<builder, host_calls, frame_current, returned, brackets>>
       ELSE /\ TotalKeys(heap) < KeyBound
            /\ heap' = [heap EXCEPT ![top_animation[1]] =
                           [@ EXCEPT !.locations = Append(@, location),
                                     !.xp_dataref.values = Append(@, value)]]
            /\ Called("ANIM_trans_key", <<value, location>>, "ok")
            /\ UNCHANGED <<vt_table, blocks, anim_intermediate_stack, anim_count,
                           last_axis, host_calls, frame_current, returned, brackets>>

ANIM_trans_key(value, location) ==
    /\ Building
    /\ IF top_animation = None
       THEN /\ Called("ANIM_trans_key", <<value, location>>, "AttributeError")
            /\ UNCHANGED <<builder, host_calls, frame_current, returned, brackets>>
       ELSE /\ TotalKeys(heap) < KeyBound
            /\ heap' = [heap EXCEPT ![top_animation[1]] =
                           [@ EXCEPT !.locations = Append(@, location),
                                     !.xp_dataref.values = Append(@, value)]]
            /\ Called("ANIM_trans_key", <<value, location>>, "ok")
            /\ UNCHANGED <<vt_table, blocks, anim_intermediate_stack, anim_count,
                           last_axis, host_calls, frame_current, returned, brackets>>

\* mutant: ANIM_trans_end closes the context of its track
ANIM_trans_end_closing ==
    /\ Building
    /\ anim_intermediate_stack' =
           SubSeq(anim_intermediate_stack, 1, Len(anim_intermediate_stack) - 1)
    /\ Called("ANIM_trans_end", <<>>, "ok")
    /\ UNCHANGED <<vt_table, blocks, heap, anim_count, last_axis, host_calls,
                   frame_current, returned, brackets>>

ANIM_trans_end ==
    /\ Building
    /\ Called("ANIM_trans_end", <<>>, "ok")
    /\ UNCHANGED <<builder, host_calls, frame_current, returned, brackets>>

\* ANIM_hide and ANIM_show share a branch; anim_type is the directive less "ANIM_"
ANIM_show_hide(directive, v1, v2, dataref_path) ==
    LET set(a) == [a EXCEPT !.xp_dataref.anim_type =
                                IF directive = "ANIM_hide" THEN ANIM_TYPE_HIDE
                                                           ELSE ANIM_TYPE_SHOW,
                            !.xp_dataref.path = dataref_path,
                            !.xp_dataref.show_hide_v1 = v1,
                            !.xp_dataref.show_hide_v2 = v2]
    IN  /\ OpenTrack(set(IntermediateAnimation))
        /\ Recorded(directive, <<v1, v2, dataref_path>>)
        /\ UNCHANGED <<vt_table, last_axis, host_calls, frame_current, returned>>

ANIM_rotate_begin(axis, dataref_path) ==
    LET set(a) == [a EXCEPT !.xp_dataref =
                      IntermediateDataref(ANIM_TYPE_TRANSFORM, 0, dataref_path, 0, 0, <<>>)]
    IN  /\ last_axis' = VecAbs(axis)
        /\ OpenTrack(set(IntermediateAnimation))
        /\ Recorded("ANIM_rotate_begin", <<axis, dataref_path>>)
        /\ UNCHANGED <<vt_table, host_calls, frame_current, returned>>

\* mutant: the driver value is stored before the axis is looked up
ANIM_rotate_key_valuefirst(value, degrees) ==
    /\ Building
    /\ IF top_animation = None
       THEN /\ Called("ANIM_rotate_key", <<value, degrees>>, "AttributeError")
            /\ UNCHANGED <<builder, host_calls, frame_current, returned, brackets>>
       ELSE IF last_axis = None
       THEN /\ heap' = [heap EXCEPT ![top_animation[1]].xp_dataref.values =
                           Append(@, value)]
            /\ Called("ANIM_rotate_key", <<value, degrees>>, "AttributeError")
            /\ UNCHANGED <<vt_table, blocks, anim_intermediate_stack, anim_count,
                           last_axis, host_calls, frame_current, returned, brackets>>
       ELSE /\ TotalKeys(heap) < KeyBound
            /\ heap' = [heap EXCEPT ![top_animation[1]] =
                           [@ EXCEPT !.rotations = RotAppend(@, last_axis, degrees),
                                     !.xp_dataref.values = Append(@, value)]]
            /\ Called("ANIM_rotate_key", <<value, degrees>>, "ok")
            /\ UNCHANGED <<vt_table, blocks, anim_intermediate_stack, anim_count,
                           last_axis, host_calls, frame_current, returned, brackets>>

ANIM_rotate_key(value, degrees) ==
    /\ Building
    /\ IF top_animation = None \/ last_axis = None
       THEN /\ Called("ANIM_rotate_key", <<value, degrees>>, "AttributeError")
            /\ UNCHANGED <<builder, host_calls, frame_current, returned, brackets>>
       ELSE /\ TotalKeys(heap) < KeyBound
            /\ heap' = [heap EXCEPT ![top_animation[1]] =
                           [@ EXCEPT !.rotations = RotAppend(@, last_axis, degrees),
                                     !.xp_dataref.values = Append(@, value)]]
            /\ Called("ANIM_rotate_key", <<value, degrees>>, "ok")
            /\ UNCHANGED <<vt_table, blocks, anim_intermediate_stack, anim_count,
                           last_axis, host_calls, frame_current, returned, brackets>>

ANIM_rotate_end ==
    /\ Building
    /\ last_axis' = None
    /\ Called("ANIM_rotate_end", <<>>, "ok")
    /\ UNCHANGED <<vt_table, blocks, heap, anim_intermediate_stack, anim_count,
                   host_calls, frame_current, returned, brackets>>

\* mutant: the loop period is set on every animation made so far
ANIM_keyframe_loop_all(loop) ==
    /\ Building
    /\ IF top_animation = None
       THEN /\ Called("ANIM_keyframe_loop", <<loop>>, "AttributeError")
            /\ UNCHANGED <<builder, host_calls, frame_current, returned, brackets>>
       ELSE /\ heap' = [k \in 1..Len(heap) |-> [heap[k] EXCEPT !.xp_dataref.loop = loop]]
            /\ Called("ANIM_keyframe_loop", <<loop>>, "ok")
            /\ UNCHANGED <<vt_table, blocks, anim_intermediate_stack, anim_count,
                           last_axis, host_calls, frame_current, returned, brackets>>

ANIM_keyframe_loop(loop) ==
    /\ Building
    /\ IF top_animation = None
       THEN /\ Called("ANIM_keyframe_loop", <<loop>>, "AttributeError")
            /\ UNCHANGED <<builder, host_calls, frame_current, returned, brackets>>
       ELSE /\ heap' = [heap EXCEPT ![top_animation[1]].xp_dataref.loop = loop]
            /\ Called("ANIM_keyframe_loop", <<loop>>, "ok")
            /\ UNCHANGED <<vt_table, blocks, anim_intermediate_stack, anim_count,
                           last_axis, host_calls, frame_current, returned, brackets>>

\* mutant: the two locations are stored in the other order
ANIM_trans_reversed(xyz1, xyz2, v1, v2, path) ==
    LET set(a) == [a EXCEPT !.locations = @ \o <<xyz2, xyz1>>,
                            !.xp_dataref.values = @ \o <<v1, v2>>,
                            !.xp_dataref.path = path]
    IN  /\ TotalKeys(heap) + 2 <= KeyBound
        /\ OpenTrack(set(IntermediateAnimation))
        /\ Recorded("ANIM_trans", <<xyz1, xyz2, v1, v2, path>>)
        /\ UNCHANGED <<vt_table, last_axis, host_calls, frame_current, returned>>

ANIM_trans(xyz1, xyz2, v1, v2, path) ==
    LET set(a) == [a EXCEPT !.locations = @ \o <<xyz1, xyz2>>,
                            !.xp_dataref.values = @ \o <<v1, v2>>,
                            !.xp_dataref.path = path]
    IN  /\ TotalKeys(heap) + 2 <= KeyBound
        /\ OpenTrack(set(IntermediateAnimation))
        /\ Recorded("ANIM_trans", <<xyz1, xyz2, v1, v2, path>>)
        /\ UNCHANGED <<vt_table, last_axis, host_calls, frame_current, returned>>

\* mutant: the static form keys the rotations by the absolute axis too
ANIM_rotate_abs(dxyz, r1, r2, v1, v2, path) ==
    LET set(a) == [a EXCEPT !.rotations =
                       RotAppend(RotAppend(@, VecAbs(dxyz), r1), VecAbs(dxyz), r2),
                            !.xp_dataref.values = @ \o <<v1, v2>>,
                            !.xp_dataref.path = path]
    IN  /\ TotalKeys(heap) + 2 <= KeyBound
        /\ OpenTrack(set(IntermediateAnimation))
        /\ Recorded("ANIM_rotate", <<dxyz, r1, r2, v1, v2, path>>)
        /\ UNCHANGED <<vt_table, last_axis, host_calls, frame_current, returned>>

\* mutant: the static rotation stores one driver value for its two samples
ANIM_rotate_onevalue(dxyz, r1, r2, v1, v2, path) ==
    LET set(a) == [a EXCEPT !.rotations = RotAppend(RotAppend(@, dxyz, r1), dxyz, r2),
                            !.xp_dataref.values = @ \o <<v2>>,
                            !.xp_dataref.path = path]
    IN  /\ TotalKeys(heap) + 2 <= KeyBound
        /\ OpenTrack(set(IntermediateAnimation))
        /\ Recorded("ANIM_rotate", <<dxyz, r1, r2, v1, v2, path>>)
        /\ UNCHANGED <<vt_table, last_axis, host_calls, frame_current, returned>>

ANIM_rotate(dxyz, r1, r2, v1, v2, path) ==
    LET set(a) == [a EXCEPT !.rotations = RotAppend(RotAppend(@, dxyz, r1), dxyz, r2),
                            !.xp_dataref.values = @ \o <<v1, v2>>,
                            !.xp_dataref.path = path]
    IN  /\ TotalKeys(heap) + 2 <= KeyBound
        /\ OpenTrack(set(IntermediateAnimation))
        /\ Recorded("ANIM_rotate", <<dxyz, r1, r2, v1, v2, path>>)
        /\ UNCHANGED <<vt_table, last_axis, host_calls, frame_current, returned>>

-----------------------------------------------------------------------------
(* IntermediateAnimation.apply_animation.  ob is the position in blocks of   *)
(* the node the host object was made from.                                   *)

\* mutant: tot_rot is assigned, not added to: one axis only is counted
recompose_rotation_single(rotations, axes, value_idx) ==
    IF axes = {} THEN <<0, 0, 0>>
    ELSE LET axis == CHOOSE a \in axes : TRUE
         IN  VecScale(axis, PyIndex(rotations[axis], value_idx))

RECURSIVE recompose_rotation(_, _, _)
recompose_rotation(rotations, axes, value_idx) ==
    IF axes = {} THEN <<0, 0, 0>>
    ELSE LET axis == CHOOSE a \in axes : TRUE
         IN  VecAdd(VecScale(axis, PyIndex(rotations[axis], value_idx)),
                    recompose_rotation(rotations, axes \ {axis}, value_idx))

\* self.locations[value_idx] and degrees[value_idx] raise IndexError when short
KeyframeInRange(a, value_idx) ==
    /\ a.locations # <<>> => PyInRange(a.locations, value_idx)
    /\ \A axis \in DOMAIN a.rotations : PyInRange(a.rotations[axis], value_idx)

\* mutant: the sample index starts at 0
TransformKeyframe_from0(a, value_idx) ==
    [idx |-> value_idx,
     dataref_path |-> a.xp_dataref.path,
     dataref_value |-> a.xp_dataref.values[value_idx + 1],
     dataref_anim_type |-> a.xp_dataref.anim_type,
     location |-> IF a.locations # <<>> THEN PyIndex(a.locations, value_idx) ELSE None,
     rotation |-> IF DOMAIN a.rotations # {}
                  THEN recompose_rotation(a.rotations, DOMAIN a.rotations, value_idx)
                  ELSE None]

TransformKeyframe(a, value_idx) ==
    [idx |-> value_idx + 1,
     dataref_path |-> a.xp_dataref.path,
     dataref_value |-> a.xp_dataref.values[value_idx + 1],
     dataref_anim_type |-> a.xp_dataref.anim_type,
     location |-> IF a.locations # <<>> THEN PyIndex(a.locations, value_idx) ELSE None,
     rotation |-> IF DOMAIN a.rotations # {}
                  THEN recompose_rotation(a.rotations, DOMAIN a.rotations, value_idx)
                  ELSE None]

\* mutant: the thresholds are swapped
ShowHideKeyframe_swapped(a) ==
    [idx |-> 1,
     dataref_path |-> a.xp_dataref.path,
     dataref_show_hide_v1 |-> a.xp_dataref.show_hide_v2,
     dataref_show_hide_v2 |-> a.xp_dataref.show_hide_v1,
     dataref_anim_type |-> a.xp_dataref.anim_type]

ShowHideKeyframe(a) ==
    [idx |-> 1,
     dataref_path |-> a.xp_dataref.path,
     dataref_show_hide_v1 |-> a.xp_dataref.show_hide_v1,
     dataref_show_hide_v2 |-> a.xp_dataref.show_hide_v2,
     dataref_anim_type |-> a.xp_dataref.anim_type]

set_animation_data(ob, keyframe_infos) ==
    [op |-> "set_animation_data", ob |-> ob, keyframe_infos |-> keyframe_infos]

\* mutant: the samples are cut to the shortest of values, locations and
\* rotations instead of raising
apply_animation_truncating(a, ob) ==
    IF a.xp_dataref.anim_type = ANIM_TYPE_TRANSFORM
    THEN LET lens == {Len(a.xp_dataref.values)}
                     \cup (IF a.locations # <<>> THEN {Len(a.locations)} ELSE {})
                     \cup {Len(a.rotations[axis]) : axis \in DOMAIN a.rotations}
             n == CHOOSE m \in lens : \A l \in lens : m <= l
         IN  [calls |-> <<set_animation_data(ob,
                              [k \in 1..n |-> TransformKeyframe(a, k - 1)])>>,
              raised |-> "ok"]
    ELSE [calls |-> <<set_animation_data(ob, <<ShowHideKeyframe(a)>>)>>,
          raised |-> "ok"]

apply_animation(a, ob) ==
    IF a.xp_dataref.anim_type = ANIM_TYPE_TRANSFORM
    THEN IF \A value_idx \in 0..(Len(a.xp_dataref.values) - 1) :
                KeyframeInRange(a, value_idx)
         THEN [calls |-> <<set_animation_data(ob,
                              [k \in 1..Len(a.xp_dataref.values) |->
                                  TransformKeyframe(a, k - 1)])>>,
               raised |-> "ok"]
         ELSE [calls |-> <<>>, raised |-> "IndexError"]
    ELSE [calls |-> <<set_animation_data(ob, <<ShowHideKeyframe(a)>>)>>,
          raised |-> "ok"]

\* for animation in intermediate_block.animations_to_apply: stops where one raises
RECURSIVE apply_animations(_, _, _)
apply_animations(animations, h, ob) ==
    IF animations = <<>> THEN [calls |-> <<>>, raised |-> "ok"]
    ELSE LET first == apply_animation(h[Head(animations)], ob)
             rest == apply_animations(Tail(animations), h, ob)
         IN  IF first.raised # "ok" THEN first
             ELSE [calls |-> first.calls \o rest.calls, raised |-> rest.raised]

-----------------------------------------------------------------------------
(* IntermediateDatablock.build_mesh *)

\* mutant: every index of the slice gets a vertex of its own
FirstSeen_all(mesh_idxes, seen) == seen \o mesh_idxes

\* the keys of idx_mapping in the order they were added
RECURSIVE FirstSeen(_, _)
FirstSeen(mesh_idxes, seen) ==
    IF mesh_idxes = <<>> THEN seen
    ELSE FirstSeen(Tail(mesh_idxes),
                   IF \E k \in 1..Len(seen) : seen[k] = Head(mesh_idxes)
                   THEN seen
                   ELSE Append(seen, Head(mesh_idxes)))

idx_mapping(seen, idx) == (CHOOSE k \in 1..Len(seen) : seen[k] = idx) - 1

RECURSIVE chunk(_, _)
chunk(it, size) ==
    IF it = <<>> THEN <<>>
    ELSE <<SubSeq(it, 1, Min(size, Len(it)))>>
         \o chunk(SubSeq(it, Min(size, Len(it)) + 1, Len(it)), size)

\* mutant: the winding order is kept
Face_unreversed(seen, face) == [j \in 1..Len(face) |-> idx_mapping(seen, face[j])]

\* [idx_mapping[idx] for idx in face][::-1]
Face(seen, face) == Reverse([j \in 1..Len(face) |-> idx_mapping(seen, face[j])])

DatablockInfo(b) ==
    [datablock_type |-> b.datablock_type, name |-> b.name, parent_info |-> b.parent_info]

\* the indices the faces use: set(itertools.chain.from_iterable(faces))
FaceIdxes(faces) == UNION {{faces[f][e] : e \in 1..Len(faces[f])} : f \in 1..Len(faces)}

\* mutant: the test of me.validate() is the other way round
AfterCreate_inverted(ob, vertices, faces, validate) ==
    <<IF validate
      THEN [op |-> "assign_normals_uvs", ob |-> ob,
            normal |-> [idx \in FaceIdxes(faces) |->
                           <<vertices[idx + 1].nx, vertices[idx + 1].ny,
                             vertices[idx + 1].nz>>],
            uv |-> [idx \in FaceIdxes(faces) |->
                       <<vertices[idx + 1].s, vertices[idx + 1].t>>]]
      ELSE [op |-> "logger.error", ob |-> ob,
            msg |-> "Mesh was not valid, check console for more"],
      [op |-> "set_material", ob |-> ob, material |-> "Material"]>>

\* The host calls of build_mesh after the mesh was made.  validate is what
\* me.validate() returned: TRUE when the host found the mesh invalid (and
\* corrected it), FALSE when the mesh was valid as given.
AfterCreate(ob, vertices, faces, validate) ==
    <<IF ~validate
      THEN [op |-> "assign_normals_uvs", ob |-> ob,
            normal |-> [idx \in FaceIdxes(faces) |->
                           <<vertices[idx + 1].nx, vertices[idx + 1].ny,
                             vertices[idx + 1].nz>>],
            uv |-> [idx \in FaceIdxes(faces) |->
                       <<vertices[idx + 1].s, vertices[idx + 1].t>>]]
      ELSE [op |-> "logger.error", ob |-> ob,
            msg |-> "Mesh was not valid, check console for more"],
      [op |-> "set_material", ob |-> ob, material |-> "Material"]>>

build_mesh(b, table, ob, validate) ==
    LET mesh_idxes == PySlice(table.idxes, b.start_idx[1], b.start_idx[1] + b.count[1])
        seen == FirstSeen(mesh_idxes, <<>>)
        faces == [f \in 1..Len(chunk(mesh_idxes, 3)) |->
                     Face(seen, chunk(mesh_idxes, 3)[f])]
        vertices == [k \in 1..Len(seen) |-> PyIndex(table.vertices, seen[k])]
    IN  IF \E k \in 1..Len(seen) : ~PyInRange(table.vertices, seen[k])
        THEN [calls |-> <<>>, raised |-> "IndexError"]
        ELSE [calls |-> <<[op |-> "create_datablock_mesh",
                           ob |-> ob,
                           info |-> DatablockInfo(b),
                           vertices |-> [k \in 1..Len(seen) |->
                                            <<vertices[k].x, vertices[k].y, vertices[k].z>>],
                           faces |-> faces]>>
                       \o AfterCreate(ob, vertices, faces, validate),
              raised |-> "ok"]

create_datablock_empty(b, ob) ==
    [op |-> "create_datablock_empty", ob |-> ob, info |-> DatablockInfo(b)]

-----------------------------------------------------------------------------
(* finalize_intermediate_blocks: the loop from block i on, given the blocks   *)
(* and the host calls so far                                                 *)

\* mutant: the parent is left as declared
clear_root_parent_never(b) == b

\* if db_info.parent_info.parent == "INTER_ROOT": db_info.parent_info = None
clear_root_parent(b) ==
    IF b.parent_info[1] = "INTER_ROOT" THEN [b EXCEPT !.parent_info = None] ELSE b

RECURSIVE finalize_from(_, _, _, _)
finalize_from(i, bl, calls, validate) ==
    IF i > Len(bl) THEN [blocks |-> bl, calls |-> calls, raised |-> "ok"]
    ELSE IF bl[i].parent_info = None
    THEN [blocks |-> bl, calls |-> calls, raised |-> "AttributeError"]
    ELSE
    LET cleared == [bl EXCEPT ![i] = clear_root_parent(@)]
        made == IF bl[i].datablock_type = "EMPTY"
                THEN [calls |-> <<create_datablock_empty(cleared[i], i)>>,
                      raised |-> "ok"]
                ELSE build_mesh(cleared[i], vt_table, i, validate[i])
        applied == apply_animations(cleared[i].animations_to_apply, heap, i)
    IN  IF made.raised # "ok"
        THEN [blocks |-> cleared, calls |-> calls, raised |-> made.raised]
        ELSE IF applied.raised # "ok"
        THEN [blocks |-> cleared, calls |-> calls \o made.calls \o applied.calls,
              raised |-> applied.raised]
        ELSE finalize_from(i + 1, cleared, calls \o made.calls \o applied.calls,
                           validate)

\* return {"FINISHED"}
finalize_return == Some({"FINISHED"})

\* mutant: the frame marker is left where the scene had it
finalize_intermediate_blocks_noreset(validate) ==
    LET done == finalize_from(2, blocks, <<>>, validate)
    IN  /\ result = "ok"
        /\ blocks' = done.blocks
        /\ host_calls' = done.calls
        /\ frame_current' = frame_current
        /\ returned' = IF done.raised = "ok" THEN finalize_return ELSE returned
        /\ Called("finalize", <<validate>>, done.raised)
        /\ UNCHANGED <<vt_table, heap, anim_intermediate_stack, anim_count,
                       last_axis, brackets>>

\* validate: what the host answers me.validate() for each mesh node
finalize_intermediate_blocks(validate) ==
    LET done == finalize_from(2, blocks, <<>>, validate)
    IN  /\ result = "ok"
        /\ blocks' = done.blocks
        /\ host_calls' = done.calls
        /\ frame_current' = IF done.raised = "ok" THEN 1 ELSE frame_current
        /\ returned' = IF done.raised = "ok" THEN finalize_return ELSE returned
        /\ Called("finalize", <<validate>>, done.raised)
        /\ UNCHANGED <<vt_table, heap, anim_intermediate_stack, anim_count,
                       last_axis, brackets>>

-----------------------------------------------------------------------------
(* Inputs of the directives.  The driver values of a stream count up, so     *)
(* that every key of a run is a different one.                               *)

Paths == {"sim/x"}
NextValue == TotalKeys(heap)
Axes == {<<0, -1, 0>>}
Thresholds == {<<3, 5>>}                                   \* (v1, v2)
Loops == {2}
StaticTrans == {<<<<0, 0, 0>>, <<1, 2, 3>>, 0, 1>>}        \* (xyz1, xyz2, v1, v2)
StaticRotate == {<<<<0, -1, 0>>, 0, 90, 0, 1>>}            \* (axis, r1, r2, v1, v2)
VTs == {VT(1, 2, 3, 0, 1, 0, 1, 1)}
Idxes == {0}
Idxes10 == {<<0, 1, 2, 3, 4, 5, 6, 7, 8, 9>>}
Slices == {<<0, 3>>}                                       \* (start, count)
NameHints == {""}
Unsupported == {"ATTR_shiny_rat"}

\* the answers of the host to me.validate(), one per mesh node
MeshNodes == {i \in 2..Len(blocks) : blocks[i].datablock_type = "MESH"}
HostValidate == [MeshNodes -> BOOLEAN]
AllValid == [i \in MeshNodes |-> FALSE]    \* the host finds every mesh valid

Table ==
    \/ \E v \in VTs : VT_(v)
    \/ \E i \in Idxes : IDX(i)
    \/ \E a \in Idxes10 : IDX10(a)

Animation ==
    \/ ANIM_begin
    \/ ANIM_end
    \/ \E p \in Paths : ANIM_trans_begin(p)
    \/ ANIM_trans_key(NextValue, <<NextValue, 0, 0>>)
    \/ ANIM_trans_end
    \/ \E d \in {"ANIM_hide", "ANIM_show"}, t \in Thresholds, p \in Paths :
          ANIM_show_hide(d, t[1], t[2], p)
    \/ \E a \in Axes, p \in Paths : ANIM_rotate_begin(a, p)
    \/ ANIM_rotate_key(NextValue, 10 * (NextValue + 1))
    \/ ANIM_rotate_end
    \/ \E l \in Loops : ANIM_keyframe_loop(l)
    \/ \E a \in StaticTrans, p \in Paths : ANIM_trans(a[1], a[2], a[3], a[4], p)
    \/ \E a \in StaticRotate, p \in Paths :
          ANIM_rotate(a[1], a[2], a[3], a[4], a[5], p)

Next ==
    \/ Table
    \/ \E s \in Slices, h \in NameHints : TRIS(s[1], s[2], h)
    \/ \E d \in Unsupported : UnsupportedDirective(d)
    \/ Animation
    \/ \E v \in HostValidate : finalize_intermediate_blocks(v)

Spec == Init /\ [][Next]_vars

\* The streams without table directives
NextAnim ==
    \/ \E s \in Slices, h \in NameHints : TRIS(s[1], s[2], h)
    \/ \E d \in Unsupported : UnsupportedDirective(d)
    \/ Animation
    \/ \E v \in HostValidate : finalize_intermediate_blocks(v)

SpecAnim == Init /\ [][NextAnim]_vars

-----------------------------------------------------------------------------
(* build_mesh on its own: the table is given (eight different vertices and   *)
(* one of the index lists of MeshIdxes), the stream is TRIS directives and    *)
(* finalization, and the host finds every mesh valid.                        *)

MeshVerts == 8
MaxMeshIdxes == 6
MeshVertices == [k \in 1..MeshVerts |-> VT(k, 10 + k, 20 + k, 0, 0, 1, k, k)]
MeshIdxValues == {2, 5, 7}
MeshIdxes == UNION {[1..n -> MeshIdxValues] : n \in 0..MaxMeshIdxes}
MeshSlices == {<<0, 6>>, <<1, 3>>, <<0, 4>>}               \* (start, count)

InitMesh ==
    /\ vt_table \in {[vertices |-> MeshVertices, idxes |-> t] : t \in MeshIdxes}
    /\ blocks = <<root_intermediate_datablock>>
    /\ heap = <<>>
    /\ anim_intermediate_stack = <<>>
    /\ anim_count = <<>>
    /\ last_axis = None
    /\ host_calls = <<>>
    /\ frame_current = 1
    /\ returned = None
    /\ call = Call("VT", <<MeshVertices[MeshVerts]>>)
    /\ result = "ok"
    /\ trace = Untracked
    /\ brackets = <<>>

NextMesh ==
    \/ \E s \in MeshSlices, h \in NameHints : TRIS(s[1], s[2], h)
    \/ finalize_intermediate_blocks(AllValid)

SpecMesh == InitMesh /\ [][NextMesh]_vars

-----------------------------------------------------------------------------
(* Finalization with meshes that have faces: the table holds three vertices  *)
(* and one triangle when the nodes are built, and the scene's frame marker   *)
(* is wherever the user left it.                                             *)

FinalVertices == [k \in 1..3 |-> VT(k, 10 + k, 20 + k, k, 0, 1, k, k + 1)]
FinalIdxes == <<2, 0, 1>>
FramesBefore == {1, 7}

InitFinal ==
    /\ vt_table = [vertices |-> FinalVertices, idxes |-> FinalIdxes]
    /\ blocks = <<root_intermediate_datablock>>
    /\ heap = <<>>
    /\ anim_intermediate_stack = <<>>
    /\ anim_count = <<>>
    /\ last_axis = None
    /\ host_calls = <<>>
    /\ frame_current \in FramesBefore
    /\ returned = None
    /\ call = Call("IDX", <<FinalIdxes[3]>>)
    /\ result = "ok"
    /\ trace = Untracked
    /\ brackets = <<>>

SpecFinal == InitFinal /\ [][NextAnim]_vars

-----------------------------------------------------------------------------
(* The table directives among all the others: any directive at any time,    *)
(* the other directives while the node list is short.                       *)

TableNodes == 1     \* nodes besides INTER_ROOT that other directives are tried on

NextTable ==
    \/ Table
    \/ Len(blocks) <= TableNodes + 1 /\ NextAnim

SpecTable == Init /\ [][NextTable]_vars

-----------------------------------------------------------------------------
(* build_mesh over index lists that the table directives accept as they      *)
(* come: three indices, each below, in or above the range of the three       *)
(* vertices.                                                                 *)

IdxValues == {-4, -1, 0, 2, 3}
IdxTables == [1..3 -> IdxValues]

InitIdx ==
    /\ vt_table \in {[vertices |-> FinalVertices, idxes |-> t] : t \in IdxTables}
    /\ blocks = <<root_intermediate_datablock>>
    /\ heap = <<>>
    /\ anim_intermediate_stack = <<>>
    /\ anim_count = <<>>
    /\ last_axis = None
    /\ host_calls = <<>>
    /\ frame_current = 1
    /\ returned = None
    /\ call = Call("IDX", <<vt_table.idxes[3]>>)
    /\ result = "ok"
    /\ trace = Untracked
    /\ brackets = <<>>

NextIdx ==
    \/ \E s \in Slices, h \in NameHints : TRIS(s[1], s[2], h)
    \/ \E v \in HostValidate : finalize_intermediate_blocks(v)

SpecIdx == InitIdx /\ [][NextIdx]_vars

-----------------------------------------------------------------------------
(* apply_animation on its own: the node list holds one empty whose pending   *)
(* animation is given, a transform animation with any of the locations,      *)
(* rotation buckets and driver values below, and the step is finalization.   *)

ApplyLocations == {<<>>, <<<<1, 2, 3>>>>, <<<<1, 2, 3>>, <<4, 5, 6>>>>}
ApplyAxes == {<<1, 0, 0>>, <<0, -1, 0>>}
ApplyDegrees == {<<10>>, <<10, 20>>, <<30, 45>>}
ApplyValues == {<<>>, <<0>>, <<0, 1>>}
ApplyRotations == UNION {[S -> ApplyDegrees] : S \in SUBSET ApplyAxes}
ApplyAnimations ==
    {[locations |-> l, rotations |-> r,
      xp_dataref |-> IntermediateDataref(ANIM_TYPE_TRANSFORM, 0, "sim/x", 0, 0, v)] :
        l \in ApplyLocations, r \in ApplyRotations, v \in ApplyValues}

InitApply ==
    /\ vt_table = [vertices |-> <<>>, idxes |-> <<>>]
    /\ blocks = <<root_intermediate_datablock,
                  [IntermediateDatablock("EMPTY", "ImpEmpty.001" \o NameSuffix,
                                         Some("INTER_ROOT"), None, None)
                      EXCEPT !.animations_to_apply = <<1>>]>>
    /\ heap \in {<<a>> : a \in ApplyAnimations}
    /\ anim_intermediate_stack = <<>>
    /\ anim_count = <<>>
    /\ last_axis = None
    /\ host_calls = <<>>
    /\ frame_current = 1
    /\ returned = None
    /\ call = Call("ANIM_end", <<>>)
    /\ result = "ok"
    /\ trace = Untracked
    /\ brackets = <<>>

NextApply == \E v \in HostValidate : finalize_intermediate_blocks(v)

SpecApply == InitApply /\ [][NextApply]_vars

-----------------------------------------------------------------------------
(* TRIS with the keyword argument name_hint given: a name of the caller's    *)
(* own, used twice or not, and names of the shape the builder generates.     *)

NameHintsGiven ==
    {"", "Wing", "ImpMesh.001" \o NameSuffix, "ImpEmpty.001" \o NameSuffix}

NextNames ==
    \/ \E s \in Slices, h \in NameHintsGiven : TRIS(s[1], s[2], h)
    \/ Animation
    \/ \E v \in HostValidate : finalize_intermediate_blocks(v)

SpecNames == Init /\ [][NextNames]_vars

-----------------------------------------------------------------------------
(* Keyed rotation tracks about two axes, in nested brackets.  Each axis is   *)
(* given with a dataref path of its own, so that the path of an animation    *)
(* tells which ANIM_rotate_begin opened it.                                  *)

AxisPaths == {<<<<0, -1, 0>>, "sim/pitch">>, <<<<1, 0, 0>>, "sim/roll">>}

NextAxes ==
    \/ ANIM_begin
    \/ ANIM_end
    \/ \E ap \in AxisPaths : ANIM_rotate_begin(ap[1], ap[2])
    \/ ANIM_rotate_key(NextValue, 10 * (NextValue + 1))
    \/ ANIM_rotate_end
    \/ \E v \in HostValidate : finalize_intermediate_blocks(v)

SpecAxes == Init /\ [][NextAxes]_vars

-----------------------------------------------------------------------------
(* Properties *)

Openers == {"ANIM_trans_begin", "ANIM_rotate_begin", "ANIM_show", "ANIM_hide",
            "ANIM_trans", "ANIM_rotate"}

IsPrefix(s, t) == Len(s) <= Len(t) /\ SubSeq(t, 1, Len(s)) = s

Creates == {"create_datablock_empty", "create_datablock_mesh"}

\* C1: bracket balance.  In a stream that raised nothing (every track-opening
\* directive inside a bracket, every ANIM_end matched), an ANIM_end pops one
\* open count, that count is the number of begin_new_frame calls made while
\* its ANIM_begin was the innermost bracket, exactly that many contexts leave
\* the top of the context stack, and the stack is back at the depth it had
\* before the matching ANIM_begin, the contexts below untouched.
C1_BracketBalance ==
    [][(call'.directive = "ANIM_end" /\ result' = "ok") =>
        LET n == anim_count[Len(anim_count)]
            open == brackets[Len(brackets)]
        IN  /\ anim_count' = SubSeq(anim_count, 1, Len(anim_count) - 1)
            /\ n = open.frames
            /\ Len(anim_intermediate_stack') = Len(anim_intermediate_stack) - n
            /\ IsPrefix(anim_intermediate_stack', anim_intermediate_stack)
            /\ Len(anim_intermediate_stack') = open.depth]_vars

\* an inner ANIM_end has closed its context and left the enclosing one open
C1_Witness ==
    /\ call.directive = "ANIM_end" /\ result = "ok"
    /\ Len(anim_count) = 1 /\ anim_count[1] = 1
    /\ Len(anim_intermediate_stack) = 1
    /\ Len(blocks) = 3 /\ blocks[3].datablock_type = "EMPTY"

\* C2: a directive build_cmd does not know raises (assert False) and changes
\* nothing of the builder: table, node list, animations, both stacks, axis.
C2_UnsupportedFails ==
    [][call'.directive \in Unsupported =>
        /\ result' = "AssertionError"
        /\ UNCHANGED <<vt_table, blocks, heap, anim_intermediate_stack,
                       anim_count, last_axis>>]_vars

C2_Witness ==
    /\ call.directive \in Unsupported /\ result = "AssertionError"
    /\ anim_intermediate_stack # <<>> /\ last_axis # None /\ Len(blocks) = 3

\* C3: after ANIM_begin, ANIM_trans_begin(path), N ANIM_trans_key(value_k,
\* location_k), ANIM_trans_end, ANIM_end and finalization, the host has made
\* the one node of the track and got for it one list of N keyframes, the k-th
\* with sample index k, the path, value_k and location_k, no rotation.
C3_TransformKeyframes ==
    Stream(trace) = "done_trans" =>
        LET N == Len(trace) - 5
        IN  /\ result = "ok"
            /\ Len(host_calls) = 2
            /\ host_calls[1].op = "create_datablock_empty"
            /\ host_calls[1].ob = 2
            /\ host_calls[2] =
                   set_animation_data(2,
                       [k \in 1..N |->
                           [idx |-> k,
                            dataref_path |-> trace[2].args[1],
                            dataref_value |-> trace[2 + k].args[1],
                            dataref_anim_type |-> "transform",
                            location |-> trace[2 + k].args[2],
                            rotation |-> None]])

C3_Witness ==
    /\ Stream(trace) = "done_trans"
    /\ Len(trace) = 8
    /\ Len(host_calls) = 2 /\ Len(host_calls[2].keyframe_infos) = 3

\* C4 as stated: the stream that is one ANIM_show(v1, v2, path) or ANIM_hide
\* alone, then finalization, yields one keyframe for the node of the directive.
C4_BareShowHide ==
    /\ Stream(trace) = "shown_bare" => result = "ok"
    /\ Stream(trace) = "done_shown_bare" =>
        /\ result = "ok"
        /\ Len(host_calls) = 2
        /\ host_calls[2] =
               set_animation_data(2,
                   <<[idx |-> 1,
                      dataref_path |-> trace[1].args[3],
                      dataref_show_hide_v1 |-> trace[1].args[1],
                      dataref_show_hide_v2 |-> trace[1].args[2],
                      dataref_anim_type |-> IF trace[1].directive = "ANIM_show"
                                            THEN "show" ELSE "hide"]>>)

\* C4, amended: the stream ANIM_begin, one ANIM_show(v1, v2, path) or
\* ANIM_hide, ANIM_end or not, then finalization, yields for the node of the
\* directive exactly one keyframe, at sample index 1, with the thresholds
\* (v1, v2), the path and the kind show (hide).
C4_ShowHideKeyframe ==
    Stream(trace) = "done_shown" =>
        /\ result = "ok"
        /\ Len(host_calls) = 2
        /\ host_calls[1].op = "create_datablock_empty"
        /\ host_calls[1].ob = 2
        /\ host_calls[2] =
               set_animation_data(2,
                   <<[idx |-> 1,
                      dataref_path |-> trace[2].args[3],
                      dataref_show_hide_v1 |-> trace[2].args[1],
                      dataref_show_hide_v2 |-> trace[2].args[2],
                      dataref_anim_type |-> IF trace[2].directive = "ANIM_show"
                                            THEN "show" ELSE "hide"]>>)

C4_Witness ==
    /\ Stream(trace) = "done_shown"
    /\ trace[2].directive = "ANIM_hide"
    /\ Len(host_calls) = 2 /\ Len(host_calls[2].keyframe_infos) = 1

\* What the properties of build_mesh are stated in: the slice of a node, the
\* first place of a value in it, and the number of different values before it
SliceOf(b) == PySlice(vt_table.idxes, b.start_idx[1], b.start_idx[1] + b.count[1])
Distinct(s) == {s[k] : k \in 1..Len(s)}
FirstAt(s, v) == CHOOSE k \in 1..Len(s) : s[k] = v /\ \A j \in 1..(k - 1) : s[j] # v
Position(s, v) == Cardinality({s[j] : j \in 1..FirstAt(s, v)}) - 1
MeshCalls == {k \in 1..Len(host_calls) : host_calls[k].op = "create_datablock_mesh"}

\* C5: every mesh handed to the host has one vertex per different index of
\* its slice, in the order of first occurrence, and faces whose entries are
\* the places of the slice's indices in that list; the slice [2,2,5,2,5,7]
\* gives 3 vertices and faces over 0..2.
C5_Deduplication ==
    \A k \in MeshCalls :
        LET c == host_calls[k]
            s == SliceOf(blocks[c.ob])
        IN  /\ Len(c.vertices) = Cardinality(Distinct(s))
            /\ \A v \in Distinct(s) :
                   LET vt == PyIndex(vt_table.vertices, v)
                   IN  c.vertices[Position(s, v) + 1] = <<vt.x, vt.y, vt.z>>
            /\ \A f \in 1..Len(c.faces) :
                   /\ \A e \in 1..Len(c.faces[f]) :
                          c.faces[f][e] \in 0..(Cardinality(Distinct(s)) - 1)
                   /\ {c.faces[f][e] : e \in 1..Len(c.faces[f])}
                          = {Position(s, s[j]) : j \in (3 * f - 2)..Min(3 * f, Len(s))}
            /\ s = <<2, 2, 5, 2, 5, 7>> =>
                   /\ Len(c.vertices) = 3
                   /\ \A f \in 1..Len(c.faces) : \A e \in 1..Len(c.faces[f]) :
                          c.faces[f][e] \in 0..2

C5_Witness ==
    \E k \in MeshCalls :
        /\ SliceOf(blocks[host_calls[k].ob]) = <<2, 2, 5, 2, 5, 7>>
        /\ host_calls[k].vertices = <<<<3, 13, 23>>, <<6, 16, 26>>, <<8, 18, 28>>>>
        /\ host_calls[k].faces = <<<<1, 0, 0>>, <<2, 1, 0>>>>

\* C6: the faces of a mesh are the triples of its slice in slice order, each
\* remapped and reversed once: (a, b, c) becomes (map(c), map(b), map(a)),
\* and reversing the face again gives (map(a), map(b), map(c)).
C6_WindingReversed ==
    \A k \in MeshCalls :
        LET c == host_calls[k]
            s == SliceOf(blocks[c.ob])
        IN  /\ Len(c.faces) = (Len(s) + 2) \div 3
            /\ \A f \in 1..(Len(s) \div 3) :
                   /\ c.faces[f] = <<Position(s, s[3 * f]),
                                     Position(s, s[3 * f - 1]),
                                     Position(s, s[3 * f - 2])>>
                   /\ Reverse(c.faces[f]) = <<Position(s, s[3 * f - 2]),
                                              Position(s, s[3 * f - 1]),
                                              Position(s, s[3 * f])>>

C6_Witness ==
    \E k \in MeshCalls :
        /\ SliceOf(blocks[host_calls[k].ob]) = <<2, 5, 7, 5, 5, 2>>
        /\ host_calls[k].faces = <<<<2, 1, 0>>, <<0, 1, 1>>>>

\* C7: in a finalization every node the host is asked to make is a node other
\* than the root sentinel; it is made with no parent when its declared parent
\* is INTER_ROOT and with its declared parent otherwise, and the nodes with
\* another parent keep it; a finalization that ends well has made every node
\* but the root once.
C7_RootAliasing ==
    [][call'.directive = "finalize" =>
        /\ \A k \in 1..Len(host_calls') :
               host_calls'[k].op \in Creates =>
                   LET i == host_calls'[k].ob
                   IN  /\ i \in 2..Len(blocks)
                       /\ blocks[i].parent_info # None
                       /\ host_calls'[k].info.name = blocks[i].name
                       /\ host_calls'[k].info.parent_info =
                              IF blocks[i].parent_info = Some("INTER_ROOT")
                              THEN None
                              ELSE blocks[i].parent_info
        /\ \A i \in 2..Len(blocks) :
               blocks[i].parent_info \notin {None, Some("INTER_ROOT")} =>
                   blocks'[i].parent_info = blocks[i].parent_info
        /\ result' = "ok" =>
               \A i \in 2..Len(blocks) :
                   Cardinality({k \in 1..Len(host_calls') :
                                   /\ host_calls'[k].op \in Creates
                                   /\ host_calls'[k].ob = i}) = 1]_vars

\* a finished finalization that made a top-level node and a child of it
C7_Witness ==
    /\ call.directive = "finalize" /\ result = "ok"
    /\ \E j, k \in 1..Len(host_calls) :
           /\ host_calls[j].op \in Creates /\ host_calls[k].op \in Creates
           /\ host_calls[j].info.parent_info = None
           /\ host_calls[k].info.parent_info = Some(host_calls[j].info.name)

\* C8: TRIS start count appends one mesh node with that slice and no
\* animations, whose parent is the node of the top context, INTER_ROOT with
\* no context open, and leaves both stacks, the axis, the animations and the
\* table alone.
C8_TrisFrame ==
    [][call'.directive = "TRIS" =>
        LET new == blocks'[Len(blocks')]
        IN  /\ result' = "ok"
            /\ Len(blocks') = Len(blocks) + 1
            /\ IsPrefix(blocks, blocks')
            /\ new.datablock_type = "MESH"
            /\ new.start_idx = Some(call'.args[1])
            /\ new.count = Some(call'.args[2])
            /\ new.animations_to_apply = <<>>
            /\ new.parent_info =
                   IF anim_intermediate_stack = <<>>
                   THEN Some("INTER_ROOT")
                   ELSE Some(blocks[anim_intermediate_stack[
                                 Len(anim_intermediate_stack)].intermediate_datablock].name)
            /\ UNCHANGED <<anim_intermediate_stack, anim_count, last_axis,
                           vt_table, heap>>]_vars

\* a TRIS inside an open track: the mesh is a child of the track's empty
C8_Witness ==
    /\ call.directive = "TRIS" /\ result = "ok"
    /\ anim_intermediate_stack # <<>>
    /\ blocks[Len(blocks)].datablock_type = "MESH"
    /\ blocks[Len(blocks)].parent_info = Some(blocks[2].name)
    /\ blocks[2].datablock_type = "EMPTY"

\* What C9 says a track-opening directive does
FrameOpened ==
    LET at == Len(blocks) + 1
        new == blocks'[at]
        anim == anim_intermediate_stack'[Len(anim_intermediate_stack')].animation
    IN  /\ result' = "ok"
        /\ Len(blocks') = at
        /\ IsPrefix(blocks, blocks')
        /\ new.datablock_type = "EMPTY"
        /\ new.parent_info =
               IF anim_intermediate_stack = <<>>
               THEN Some("INTER_ROOT")
               ELSE Some(blocks[anim_intermediate_stack[
                             Len(anim_intermediate_stack)].intermediate_datablock].name)
        /\ anim_intermediate_stack' =
               Append(anim_intermediate_stack,
                      [animation |-> anim, intermediate_datablock |-> at])
        /\ Len(heap') = Len(heap) + 1 /\ anim = Len(heap')
        /\ IsPrefix(heap, heap')
        /\ anim_count # <<>>
        /\ anim_count' = [anim_count EXCEPT ![Len(anim_count)] = @ + 1]
        /\ new.animations_to_apply = <<anim>>

\* C9 as stated: every track-opening directive does all of it
C9_EveryOpener == [][call'.directive \in Openers => FrameOpened]_vars

\* C9, amended: a track-opening directive issued inside an open bracket
\* appends one empty node whose parent is the node of the top context
\* (INTER_ROOT with none open), pushes one context pairing a new animation
\* with that node, adds one to the innermost open count and puts that
\* animation, alone, in the node's animations_to_apply.
C9_OpenerInBracket ==
    [][(call'.directive \in Openers /\ anim_count # <<>>) => FrameOpened]_vars

\* a track opened inside another one
C9_Witness ==
    /\ call.directive \in Openers /\ result = "ok"
    /\ Len(anim_intermediate_stack) = 2
    /\ blocks[3].parent_info = Some(blocks[2].name)
    /\ blocks[3].animations_to_apply = <<anim_intermediate_stack[2].animation>>

\* C10: ANIM_end with no open count raises and leaves the context stack, the
\* node list and the animations as they were.
C10_UnmatchedEnd ==
    [][(call'.directive = "ANIM_end" /\ anim_count = <<>>) =>
        /\ result' = "IndexError"
        /\ UNCHANGED <<anim_intermediate_stack, blocks, heap, anim_count>>]_vars

\* an ANIM_end after the last bracket was closed, nodes already made
C10_Witness ==
    /\ call.directive = "ANIM_end" /\ result = "IndexError"
    /\ anim_count = <<>> /\ Len(blocks) = 3 /\ heap # <<>>

KeyDirectives == {"ANIM_trans_key", "ANIM_rotate_key", "ANIM_keyframe_loop"}

\* C11: a keyframe directive (ANIM_trans_key, ANIM_rotate_key,
\* ANIM_keyframe_loop) issued with the context stack empty raises, and the
\* failing call records nothing: node list, animations (locations, rotations,
\* driver values, loop), both stacks, axis and table are as before.
C11_KeyWithoutContext ==
    [][(call'.directive \in KeyDirectives /\ anim_intermediate_stack = <<>>) =>
        /\ result' = "AttributeError"
        /\ UNCHANGED <<vt_table, blocks, heap, anim_intermediate_stack,
                       anim_count, last_axis>>]_vars

\* a key arriving after its track's bracket was closed
C11_Witness ==
    /\ call.directive = "ANIM_trans_key" /\ result = "AttributeError"
    /\ anim_intermediate_stack = <<>>
    /\ heap # <<>> /\ Len(heap[1].xp_dataref.values) = 1

\* What the finalizations of C12 and C13 are compared with: the same
\* finalization with every mesh found valid, and the host calls that make
\* nodes, bind animations and set materials
ReturnOf(validate) ==
    IF finalize_from(2, blocks, <<>>, validate).raised = "ok"
    THEN finalize_return ELSE None
Materializing(calls) ==
    SelectSeq(calls, LAMBDA c : c.op \notin {"assign_normals_uvs", "logger.error"})
OpsFor(calls, ob) == {calls[k].op : k \in {j \in 1..Len(calls) : calls[j].ob = ob}}

\* C12 as stated: a finalization in which the host found a mesh invalid
\* returns a status other than the one the same finalization returns when
\* every mesh is valid.
C12_StatusDistinguishes ==
    [][(/\ call'.directive = "finalize" /\ result' = "ok"
        /\ \E i \in MeshNodes : call'.args[1][i]) =>
           returned' # ReturnOf(AllValid)]_vars

\* C13 as stated: a mesh the host found invalid still gets normals and UVs
\* assigned for the vertices its faces use.
C13_BestEffortNormals ==
    [][call'.directive = "finalize" =>
        \A k \in 1..Len(host_calls') :
            host_calls'[k].op = "logger.error" =>
                \E j \in 1..Len(host_calls') :
                    /\ host_calls'[j].op = "assign_normals_uvs"
                    /\ host_calls'[j].ob = host_calls'[k].ob]_vars

\* C13, amended: a mesh the host reports as invalid is not fatal.  The node is
\* made, the error is logged, the material is set, and no normal or UV is
\* assigned to it (normals and UVs, for the vertices the faces use, are
\* assigned to the meshes found valid only); the nodes made, the animations
\* bound and the outcome of the finalization are those of the finalization in
\* which every mesh is valid.
C13_InvalidMeshNonFatal ==
    [][call'.directive = "finalize" =>
        LET validate == call'.args[1]
            clean == finalize_from(2, blocks, <<>>, AllValid)
        IN  /\ result' = clean.raised
            /\ Materializing(host_calls') = Materializing(clean.calls)
            /\ \A k \in 1..Len(host_calls') :
                   host_calls'[k].op = "create_datablock_mesh" =>
                       LET i == host_calls'[k].ob
                       IN  /\ host_calls'[k + 1].ob = i
                           /\ host_calls'[k + 1].op =
                                  IF validate[i] THEN "logger.error"
                                                 ELSE "assign_normals_uvs"
                           /\ host_calls'[k + 2] =
                                  [op |-> "set_material", ob |-> i,
                                   material |-> "Material"]
                           /\ OpsFor(host_calls', i) \cap
                                  {"logger.error", "assign_normals_uvs"} =
                                  {host_calls'[k + 1].op}
                           /\ ~validate[i] =>
                                  /\ DOMAIN host_calls'[k + 1].normal =
                                         FaceIdxes(host_calls'[k].faces)
                                  /\ DOMAIN host_calls'[k + 1].uv =
                                         FaceIdxes(host_calls'[k].faces)]_vars

\* an invalid mesh, then an animated empty made and bound after it
C13_Witness ==
    /\ call.directive = "finalize" /\ result = "ok"
    /\ Len(blocks) = 3 /\ call.args[1][2]
    /\ host_calls[1].op = "create_datablock_mesh" /\ host_calls[1].faces # <<>>
    /\ host_calls[2].op = "logger.error"
    /\ host_calls[4].op = "create_datablock_empty" /\ host_calls[4].ob = 3
    /\ host_calls[5].op = "set_animation_data" /\ host_calls[5].ob = 3

\* the lengths a transform animation holds, and the animations that have both
\* locations and rotations but not the same number of everything
RotationLens(a) == {Len(a.rotations[axis]) : axis \in DOMAIN a.rotations}
Inconsistent(a) ==
    /\ a.xp_dataref.anim_type = ANIM_TYPE_TRANSFORM
    /\ a.locations # <<>> /\ DOMAIN a.rotations # {}
    /\ {Len(a.locations), Len(a.xp_dataref.values)} \cup RotationLens(a)
           # {Len(a.locations)}

\* C14: a transform animation holding both locations and rotations whose
\* locations, per-axis rotations and driver values are not equally many is
\* rejected: the finalization that meets it raises, and no keyframe list
\* (cut or padded) is given to the host for its node.
C14_SampleCounts ==
    [][call'.directive = "finalize" =>
        \A i \in 2..Len(blocks) :
            \A n \in 1..Len(blocks[i].animations_to_apply) :
                Inconsistent(heap[blocks[i].animations_to_apply[n]]) =>
                    /\ result' = "IndexError"
                    /\ \A k \in 1..Len(host_calls') :
                           ~(/\ host_calls'[k].op = "set_animation_data"
                             /\ host_calls'[k].ob = i)]_vars

\* one location, one rotation, two driver values: the finalization raised
C14_Witness ==
    /\ call.directive = "finalize" /\ result = "IndexError"
    /\ \E i \in 2..Len(blocks) :
           /\ blocks[i].animations_to_apply # <<>>
           /\ LET a == heap[blocks[i].animations_to_apply[1]]
              IN  /\ Inconsistent(a)
                  /\ Len(a.locations) = 1 /\ Len(a.xp_dataref.values) = 2
           /\ host_calls[Len(host_calls)].op = "create_datablock_empty"
           /\ host_calls[Len(host_calls)].ob = i

\* C15 as stated: every index a mesh build takes from its slice is an offset
\* into the vertices, 0 <= i < len(vertices); a mesh is never made from a
\* slice that holds another value.
C15_IndexValidity ==
    \A k \in MeshCalls :
        LET s == SliceOf(blocks[host_calls[k].ob])
        IN  \A j \in 1..Len(s) : 0 <= s[j] /\ s[j] < Len(vt_table.vertices)

TableDirectives == {"VT", "IDX", "IDX10"}

\* C16: the table is append-only.  VT appends its vertex record, IDX its
\* index, IDX10 its ten indices in the order given, whatever the values are;
\* what was in the table stays where it was, and no other directive, nor the
\* finalization, changes the table.
C16_TableAppendOnly ==
    [][/\ call'.directive = "VT" =>
              /\ result' = "ok"
              /\ vt_table'.vertices = Append(vt_table.vertices, call'.args[1])
              /\ vt_table'.idxes = vt_table.idxes
       /\ call'.directive = "IDX" =>
              /\ result' = "ok"
              /\ vt_table'.idxes = Append(vt_table.idxes, call'.args[1])
              /\ vt_table'.vertices = vt_table.vertices
       /\ call'.directive = "IDX10" =>
              /\ result' = "ok"
              /\ Len(call'.args) = 10
              /\ vt_table'.idxes = vt_table.idxes \o call'.args
              /\ vt_table'.vertices = vt_table.vertices
       /\ call'.directive \notin TableDirectives => vt_table' = vt_table
       /\ IsPrefix(vt_table.vertices, vt_table'.vertices)
       /\ IsPrefix(vt_table.idxes, vt_table'.idxes)]_vars

\* one index, then ten more, over a single vertex: all were taken as given
C16_Witness ==
    /\ call.directive = "IDX10" /\ result = "ok"
    /\ vt_table.idxes = <<0, 0, 1, 2, 3, 4, 5, 6, 7, 8, 9>>
    /\ Len(vt_table.vertices) = 1
    /\ Len(blocks) = 2

\* the animations that have a context on the stack, and the one on top of it
OnStack(stack) == {stack[j].animation : j \in 1..Len(stack)}
TopOf(stack) == IF stack = <<>> THEN {} ELSE {stack[Len(stack)].animation}

\* C17: frozen once popped.  A step changes no animation (locations,
\* rotations, driver values, thresholds, path, loop) but the one of the top
\* context, as it is before the step or as the step makes it; so an animation
\* whose context ANIM_end has popped never changes again, and it never gets a
\* context again.  The pending-animations list of a node never changes once
\* the node is in the list; a new node holds at most the animation made with
\* it.
C17_FrozenOncePopped ==
    [][/\ Len(heap') >= Len(heap)
       /\ \A k \in 1..Len(heap) :
              /\ heap'[k] # heap[k] =>
                     /\ k \in TopOf(anim_intermediate_stack)
                     /\ k \in TopOf(anim_intermediate_stack')
              /\ k \notin OnStack(anim_intermediate_stack) =>
                     /\ heap'[k] = heap[k]
                     /\ k \notin OnStack(anim_intermediate_stack')
       /\ \A k \in (Len(heap) + 1)..Len(heap') :
              heap'[k] # IntermediateAnimation =>
                  k \in TopOf(anim_intermediate_stack')
       /\ \A i \in 1..Len(blocks) :
              blocks'[i].animations_to_apply = blocks[i].animations_to_apply
       /\ \A i \in (Len(blocks) + 1)..Len(blocks') :
              \A n \in 1..Len(blocks'[i].animations_to_apply) :
                  blocks'[i].animations_to_apply[n] \in
                      (Len(heap) + 1)..Len(heap')]_vars

\* a key given to the outer track after the inner one was closed: the inner
\* animation is as ANIM_end left it
C17_Witness ==
    /\ call.directive = "ANIM_trans_key" /\ result = "ok"
    /\ Len(heap) = 2 /\ OnStack(anim_intermediate_stack) = {1}
    /\ Len(heap[1].xp_dataref.values) = 1
    /\ heap[2].xp_dataref.values = <<>>
    /\ blocks[3].animations_to_apply = <<2>>

\* the nodes the host was asked to make, in the order of the calls, and the
\* places in the calls where one was made or an animation was bound
MadeCalls(calls) == SelectSeq(calls, LAMBDA c : c.op \in Creates)
MadeAt(calls, i) == {k \in 1..Len(calls) : calls[k].op \in Creates /\ calls[k].ob = i}
BoundAt(calls, i) ==
    {k \in 1..Len(calls) : calls[k].op = "set_animation_data" /\ calls[k].ob = i}
RECURSIVE Ascending(_)
Ascending(S) ==
    IF S = {} THEN <<>>
    ELSE LET m == CHOOSE x \in S : \A y \in S : x <= y
         IN  <<m>> \o Ascending(S \ {m})

\* C18: a finalization is one pass in list order.  The nodes the host is
\* asked to make are the nodes 2, 3, ... of the list, each once and in that
\* order, an empty for an EMPTY and a mesh for a MESH; every animation bound
\* is a pending animation of the node it is bound to, bound after the node
\* was made and before the next one is, in the order of the node's list.  A
\* finalization that returns has made every node but the root, has bound each
\* pending animation once, and leaves the frame marker at 1.
C18_SinglePass ==
    [][call'.directive = "finalize" =>
        LET made == MadeCalls(host_calls')
        IN  /\ Len(made) <= Len(blocks) - 1
            /\ \A n \in 1..Len(made) :
                   /\ made[n].ob = n + 1
                   /\ made[n].op = IF blocks[n + 1].datablock_type = "EMPTY"
                                   THEN "create_datablock_empty"
                                   ELSE "create_datablock_mesh"
            /\ \A i \in 2..Len(blocks) :
                   LET bound == Ascending(BoundAt(host_calls', i))
                       pending == blocks[i].animations_to_apply
                   IN  /\ Len(bound) <= Len(pending)
                       /\ \A n \in 1..Len(bound) :
                              /\ <<host_calls'[bound[n]]>> =
                                     apply_animation(heap[pending[n]], i).calls
                              /\ \A m \in MadeAt(host_calls', i) : m < bound[n]
                              /\ \A m \in MadeAt(host_calls', i + 1) : bound[n] < m
                       /\ result' = "ok" => Len(bound) = Len(pending)
            /\ result' = "ok" =>
                   /\ Len(made) = Len(blocks) - 1
                   /\ frame_current' = 1
                   /\ returned' # None]_vars

\* a finished pass over a mesh and an animated empty under it
C18_Witness ==
    /\ call.directive = "finalize" /\ result = "ok" /\ frame_current = 1
    /\ Len(blocks) = 3
    /\ blocks[2].datablock_type = "EMPTY" /\ blocks[3].datablock_type = "MESH"
    /\ MadeAt(host_calls, 2) = {1} /\ BoundAt(host_calls, 2) = {2}
    /\ MadeAt(host_calls, 3) = {3}
    /\ Len(host_calls[2].keyframe_infos) = 2

Negative(axis) == \E c \in 1..3 : axis[c] < 0
AbsOf(axis) == [c \in 1..3 |-> IF axis[c] < 0 THEN -axis[c] ELSE axis[c]]

TrackEnds == {"ANIM_trans_end", "ANIM_rotate_end"}

\* C20: ANIM_trans_end and ANIM_rotate_end close nothing.  ANIM_trans_end
\* changes nothing of the builder; ANIM_rotate_end forgets the axis and
\* changes nothing else; so with a context open, a TRIS or a track-opening
\* directive that comes next (before the ANIM_end of the bracket) makes a node
\* whose parent is the node of the track just ended.
C20_EndsCloseNothing ==
    [][/\ call'.directive = "ANIM_trans_end" =>
              /\ result' = "ok"
              /\ UNCHANGED <<vt_table, blocks, heap, anim_intermediate_stack,
                             anim_count, last_axis>>
       /\ call'.directive = "ANIM_rotate_end" =>
              /\ result' = "ok"
              /\ last_axis' = None
              /\ UNCHANGED <<vt_table, blocks, heap, anim_intermediate_stack,
                             anim_count>>
       /\ (/\ call.directive \in TrackEnds
           /\ anim_intermediate_stack # <<>>
           /\ call'.directive \in Openers \cup {"TRIS"}
           /\ result' = "ok") =>
              /\ Len(blocks') = Len(blocks) + 1
              /\ blocks'[Len(blocks')].parent_info =
                     Some(blocks[anim_intermediate_stack[
                              Len(anim_intermediate_stack)].intermediate_datablock].name)]_vars

\* a TRIS right after the ANIM_trans_end of the open track: a child of the
\* track's empty
C20_Witness ==
    /\ Stream(trace) = "tris_after_end" /\ result = "ok"
    /\ Len(anim_intermediate_stack) = 1 /\ anim_count = <<1>>
    /\ blocks[3].datablock_type = "MESH"
    /\ blocks[3].parent_info = Some(blocks[2].name)
    /\ blocks[2].animations_to_apply = <<anim_intermediate_stack[1].animation>>

\* the degree samples an animation holds, over all its rotation buckets
RECURSIVE Samples(_, _)
Samples(rot, axes) ==
    IF axes = {} THEN 0
    ELSE LET axis == CHOOSE a \in axes : TRUE
         IN  Len(rot[axis]) + Samples(rot, axes \ {axis})

\* C21: ANIM_rotate_end clears the remembered axis.  An ANIM_rotate_key that
\* arrives with no axis remembered (after ANIM_rotate_end, or with no
\* ANIM_rotate_begin before it) raises, and no animation gets a degree sample
\* in any rotation bucket or a driver value from it: the animations, the node
\* list, both stacks and the table are as before, the axis stays forgotten.
C21_KeyWithoutAxis ==
    [][/\ call'.directive = "ANIM_rotate_end" =>
              result' = "ok" /\ last_axis' = None
       /\ (call'.directive = "ANIM_rotate_key" /\ last_axis = None) =>
              /\ result' = "AttributeError"
              /\ Len(heap') = Len(heap)
              /\ \A k \in 1..Len(heap) :
                     /\ Samples(heap'[k].rotations, DOMAIN heap'[k].rotations) =
                            Samples(heap[k].rotations, DOMAIN heap[k].rotations)
                     /\ heap'[k].rotations = heap[k].rotations
                     /\ heap'[k].xp_dataref.values = heap[k].xp_dataref.values
              /\ UNCHANGED <<vt_table, blocks, heap, anim_intermediate_stack,
                             anim_count, last_axis>>]_vars

\* a key that came after the ANIM_rotate_end of a track that holds one sample
C21_Witness ==
    /\ call.directive = "ANIM_rotate_key" /\ result = "AttributeError"
    /\ last_axis = None /\ anim_intermediate_stack # <<>>
    /\ LET a == heap[anim_intermediate_stack[Len(anim_intermediate_stack)].animation]
       IN  /\ DOMAIN a.rotations = {<<0, 1, 0>>}
           /\ Len(a.rotations[<<0, 1, 0>>]) = 1
           /\ Len(a.xp_dataref.values) = 1

\* the sum, over the axes of a rotation map, of component c of the axis times
\* the axis's degree value at sample i
RECURSIVE AxisSum(_, _, _, _)
AxisSum(rot, axes, i, c) ==
    IF axes = {} THEN 0
    ELSE LET axis == CHOOSE a \in axes : TRUE
         IN  axis[c] * rot[axis][i] + AxisSum(rot, axes \ {axis}, i, c)

\* every list of a holds a sample for each of its N driver values
EnoughSamples(a) ==
    /\ a.locations # <<>> => Len(a.locations) >= Len(a.xp_dataref.values)
    /\ \A axis \in DOMAIN a.rotations :
           Len(a.rotations[axis]) >= Len(a.xp_dataref.values)

OneContextOpened ==
    /\ result' = "ok"
    /\ Len(heap') = Len(heap) + 1
    /\ IsPrefix(heap, heap')
    /\ anim_intermediate_stack' =
           Append(anim_intermediate_stack,
                  [animation |-> Len(heap) + 1,
                   intermediate_datablock |-> Len(blocks) + 1])
StaticKeyframe(i, path, value, location, rotation) ==
    [idx |-> i, dataref_path |-> path, dataref_value |-> value,
     dataref_anim_type |-> "transform", location |-> location,
     rotation |-> rotation]

\* C23: ANIM_trans xyz1 xyz2 v1 v2 path, issued inside an open bracket, opens
\* one new context whose animation then has the locations [xyz1, xyz2], the
\* driver values [v1, v2], the path and the transform kind, no rotation; the
\* finalization of ANIM_begin, ANIM_trans gives the host exactly two
\* keyframes for it, at sample indices 1 and 2.  ANIM_rotate axis r1 r2 v1 v2
\* path likewise leaves the degree samples [r1, r2] under the one axis, the
\* values [v1, v2], no location, and two keyframes.
C23_StaticShorthand ==
    [][/\ (call'.directive = "ANIM_trans" /\ anim_count # <<>>) =>
              LET g == call'.args
              IN  /\ OneContextOpened
                  /\ heap'[Len(heap')] =
                         [locations |-> <<g[1], g[2]>>,
                          rotations |-> <<>>,
                          xp_dataref |->
                              [anim_type |-> "transform", loop |-> 0,
                               path |-> g[5], show_hide_v1 |-> 0,
                               show_hide_v2 |-> 0, values |-> <<g[3], g[4]>>]]
       /\ (call'.directive = "ANIM_rotate" /\ anim_count # <<>>) =>
              LET g == call'.args
                  a == heap'[Len(heap')]
              IN  /\ OneContextOpened
                  /\ a.locations = <<>>
                  /\ DOMAIN a.rotations = {g[1]}
                  /\ a.rotations[g[1]] = <<g[2], g[3]>>
                  /\ a.xp_dataref =
                         [anim_type |-> "transform", loop |-> 0,
                          path |-> g[6], show_hide_v1 |-> 0,
                          show_hide_v2 |-> 0, values |-> <<g[4], g[5]>>]
       /\ Stream(trace') = "done_static_t" =>
              LET g == trace'[2].args
              IN  /\ result' = "ok"
                  /\ Len(host_calls') = 2
                  /\ host_calls'[2] =
                         set_animation_data(2,
                             <<StaticKeyframe(1, g[5], g[3], g[1], None),
                               StaticKeyframe(2, g[5], g[4], g[2], None)>>)
       /\ Stream(trace') = "done_static_r" =>
              LET g == trace'[2].args
              IN  /\ result' = "ok"
                  /\ Len(host_calls') = 2
                  /\ host_calls'[2] =
                         set_animation_data(2,
                             <<StaticKeyframe(1, g[6], g[4], None,
                                              [c \in 1..3 |-> g[1][c] * g[2]]),
                               StaticKeyframe(2, g[6], g[5], None,
                                              [c \in 1..3 |-> g[1][c] * g[3]])>>)]_vars

\* the finalization of ANIM_begin, ANIM_trans (0,0,0) (1,2,3) 0 1 sim/x
C23_Witness ==
    /\ Stream(trace) = "done_static_t" /\ result = "ok"
    /\ heap[1].locations = <<<<0, 0, 0>>, <<1, 2, 3>>>>
    /\ heap[1].xp_dataref.values = <<0, 1>>
    /\ Len(host_calls[2].keyframe_infos) = 2
    /\ host_calls[2].keyframe_infos[2].idx = 2
    /\ host_calls[2].keyframe_infos[2].location = <<1, 2, 3>>

\* C24: ANIM_keyframe_loop loop, with a context on the stack, sets the loop
\* period of the dataref of the top context and changes nothing else: the
\* kind, path, thresholds and driver values of that dataref, the locations and
\* rotations of its animation, every other animation, the node list, both
\* stacks, the axis and the table are as before.
C24_LoopOnly ==
    [][(call'.directive = "ANIM_keyframe_loop" /\ anim_intermediate_stack # <<>>) =>
        LET top == anim_intermediate_stack[Len(anim_intermediate_stack)].animation
        IN  /\ result' = "ok"
            /\ Len(heap') = Len(heap)
            /\ heap'[top].xp_dataref.loop = call'.args[1]
            /\ heap'[top].xp_dataref.anim_type = heap[top].xp_dataref.anim_type
            /\ heap'[top].xp_dataref.path = heap[top].xp_dataref.path
            /\ heap'[top].xp_dataref.show_hide_v1 = heap[top].xp_dataref.show_hide_v1
            /\ heap'[top].xp_dataref.show_hide_v2 = heap[top].xp_dataref.show_hide_v2
            /\ heap'[top].xp_dataref.values = heap[top].xp_dataref.values
            /\ heap'[top].locations = heap[top].locations
            /\ heap'[top].rotations = heap[top].rotations
            /\ \A k \in 1..Len(heap) : k # top => heap'[k] = heap[k]
            /\ UNCHANGED <<blocks, anim_intermediate_stack, anim_count,
                           last_axis, vt_table>>]_vars

\* the loop period given to the inner of two tracks, which holds a key
C24_Witness ==
    /\ call.directive = "ANIM_keyframe_loop" /\ result = "ok"
    /\ Len(heap) = 2 /\ Len(anim_intermediate_stack) = 2
    /\ heap[2].xp_dataref.loop = 2 /\ heap[1].xp_dataref.loop = 0
    /\ Len(heap[2].xp_dataref.values) = 1

RECURSIVE SumCounts(_)
SumCounts(counts) ==
    IF counts = <<>> THEN 0 ELSE Head(counts) + SumCounts(Tail(counts))

\* C25 as stated: in every state of the builder the depth of the context
\* stack is the sum of the entries of the open-count stack.
C25_DepthIsSumOfCounts ==
    Len(anim_intermediate_stack) = SumCounts(anim_count)

\* C26 as stated: a track-opening directive issued with no ANIM_begin bracket
\* open raises, and the failing call leaves the node list, the context stack
\* and the remembered axis as they were.
C26_FailedOpenerLeavesNothing ==
    [][(call'.directive \in Openers /\ anim_count = <<>>) =>
        /\ result' # "ok"
        /\ UNCHANGED <<blocks, anim_intermediate_stack, last_axis>>]_vars

\* C30 as stated: no two nodes of the flat list, root included, have the same
\* name, whatever name_hint the TRIS calls were given.
C30_NamesUnique ==
    \A i, j \in 1..Len(blocks) : i # j => blocks[i].name # blocks[j].name

\* C27: parents precede children.  After any sequence of directives every
\* node but the root declares a parent, and the name it declares is the name
\* of a node earlier in the list that is the root or an empty, not a mesh; so
\* whenever finalization asks the host to make a node with a parent, it has
\* asked it before, in the same pass, to make an empty of that name.
C27_ParentsPrecede ==
    [][/\ call'.directive # "finalize" =>
              \A i \in 2..Len(blocks') :
                  /\ blocks'[i].parent_info # None
                  /\ \E j \in 1..(i - 1) :
                         /\ blocks'[j].name = blocks'[i].parent_info[1]
                         /\ blocks'[j].datablock_type = "EMPTY"
       /\ call'.directive = "finalize" =>
              \A k \in 1..Len(host_calls') :
                  (/\ host_calls'[k].op \in Creates
                   /\ host_calls'[k].info.parent_info # None) =>
                      \E m \in 1..(k - 1) :
                          /\ host_calls'[m].op = "create_datablock_empty"
                          /\ host_calls'[m].ob < host_calls'[k].ob
                          /\ host_calls'[m].info.name =
                                 host_calls'[k].info.parent_info[1]]_vars

\* a finalization that made an empty and then the mesh that hangs under it
C27_Witness ==
    /\ call.directive = "finalize" /\ result = "ok"
    /\ Len(blocks) = 3
    /\ blocks[2].datablock_type = "EMPTY" /\ blocks[3].datablock_type = "MESH"
    /\ blocks[3].parent_info = Some(blocks[2].name)
    /\ \E m, k \in 1..Len(host_calls) :
           /\ m < k
           /\ host_calls[m].op = "create_datablock_empty" /\ host_calls[m].ob = 2
           /\ host_calls[k].op = "create_datablock_mesh" /\ host_calls[k].ob = 3
           /\ host_calls[k].info.parent_info = Some(host_calls[m].info.name)

\* the node of the k-th context of a stack, in a node list
NodeOf(bl, stack, k) == bl[stack[k].intermediate_datablock]
ChainAbove(bl, stack) ==
    \A k \in 2..Len(stack) :
        NodeOf(bl, stack, k).parent_info = Some(NodeOf(bl, stack, k - 1).name)

Holders(bl, k) ==
    {i \in 1..Len(bl) :
        \E n \in 1..Len(bl[i].animations_to_apply) : bl[i].animations_to_apply[n] = k}

\* C29: after any sequence of directives that all succeeded, every empty node
\* but the root has exactly one pending animation, every mesh node and the
\* root have none, and every animation is in the pending list of exactly one
\* node: the node it was paired with on the context stack when the
\* track-opening directive made both.
C29_OneAnimationPerEmpty ==
    [][result' = "ok" =>
        /\ blocks'[1].animations_to_apply = <<>>
        /\ \A i \in 2..Len(blocks') :
               Len(blocks'[i].animations_to_apply) =
                   IF blocks'[i].datablock_type = "EMPTY" THEN 1 ELSE 0
        /\ \A k \in 1..Len(heap') : Cardinality(Holders(blocks', k)) = 1
        /\ call'.directive \in Openers =>
               LET top == anim_intermediate_stack'[Len(anim_intermediate_stack')]
               IN  /\ top.animation = Len(heap') /\ Len(heap') = Len(heap) + 1
                   /\ top.intermediate_datablock = Len(blocks')
                   /\ Len(blocks') = Len(blocks) + 1
                   /\ Holders(blocks', top.animation) = {top.intermediate_datablock}]_vars

\* an empty with its animation and a mesh under it
C29_Witness ==
    /\ call.directive = "TRIS" /\ result = "ok"
    /\ Len(blocks) = 3 /\ Len(heap) = 1
    /\ blocks[2].datablock_type = "EMPTY" /\ blocks[2].animations_to_apply = <<1>>
    /\ blocks[3].datablock_type = "MESH" /\ blocks[3].animations_to_apply = <<>>
    /\ anim_intermediate_stack = <<[animation |-> 1, intermediate_datablock |-> 2]>>

\* an animation all of whose samples are in one list: its locations, or the
\* bucket of one axis
OneList(a) ==
    \/ DOMAIN a.rotations = {}
    \/ a.locations = <<>> /\ Cardinality(DOMAIN a.rotations) = 1

\* C31: in every state every animation has as many driver values as it has
\* locations and degree samples, over all axes, together.  So an animation
\* whose samples are all locations, or all under one axis, has a sample for
\* each driver value, and keyframe generation gives it one keyframe per
\* driver value without raising.
C31_ValuesCountSamples ==
    \A k \in 1..Len(heap) :
        LET a == heap[k]
        IN  /\ Len(a.xp_dataref.values) =
                   Len(a.locations) + Samples(a.rotations, DOMAIN a.rotations)
            /\ OneList(a) =>
                   /\ a.locations # <<>> =>
                          Len(a.locations) = Len(a.xp_dataref.values)
                   /\ \A axis \in DOMAIN a.rotations :
                          Len(a.rotations[axis]) = Len(a.xp_dataref.values)
                   /\ apply_animation(a, 2).raised = "ok"
                   /\ a.xp_dataref.anim_type = ANIM_TYPE_TRANSFORM =>
                          Len(apply_animation(a, 2).calls[1].keyframe_infos) =
                              Len(a.xp_dataref.values)

\* a track that got a location key and a rotation key: two driver values
C31_Witness ==
    \E k \in 1..Len(heap) :
        /\ Len(heap[k].locations) = 1
        /\ Samples(heap[k].rotations, DOMAIN heap[k].rotations) = 1
        /\ Len(heap[k].xp_dataref.values) = 2

\* C32 as stated: the rotation map of an animation opened by
\* ANIM_rotate_begin axis path never holds a key other than the absolute
\* value of that axis, however the brackets and the keys are interleaved.
C32_KeysUnderOwnAxis ==
    \A k \in 1..Len(heap) :
        \A ap \in AxisPaths :
            heap[k].xp_dataref.path = ap[2] =>
                DOMAIN heap[k].rotations \subseteq {AbsOf(ap[1])}

\* C33 as stated: every mesh built for a node made by TRIS start count has
\* exactly count indices, those at the places start..start+count-1 of the
\* index table, in faces of exactly 3 indices each; a range that runs past
\* the end of the table, or a count that is no multiple of 3, yields no mesh
\* with fewer indices or with a shorter face.
C33_WholeTriangles ==
    \A k \in MeshCalls :
        LET c == host_calls[k]
            b == blocks[c.ob]
        IN  /\ b.start_idx[1] + b.count[1] <= Len(vt_table.idxes)
            /\ Len(SliceOf(b)) = b.count[1]
            /\ 3 * Len(c.faces) = b.count[1]
            /\ \A f \in 1..Len(c.faces) : Len(c.faces[f]) = 3

\* C34 as stated: a finalization leaves the node list (its length and order,
\* each node's kind, name, slice and pending animations), every animation,
\* the table and both stacks as they were, so that a finalization run again
\* on the builder, the host answering as before, makes the same nodes with
\* the same parents and keyframes.
C34_FinalizationRepeatable ==
    [][call'.directive = "finalize" =>
        /\ Len(blocks') = Len(blocks)
        /\ \A i \in 1..Len(blocks) :
               /\ blocks'[i].datablock_type = blocks[i].datablock_type
               /\ blocks'[i].name = blocks[i].name
               /\ blocks'[i].start_idx = blocks[i].start_idx
               /\ blocks'[i].count = blocks[i].count
               /\ blocks'[i].animations_to_apply = blocks[i].animations_to_apply
        /\ UNCHANGED <<heap, vt_table, anim_intermediate_stack, anim_count>>
        /\ (call.directive = "finalize" /\ result = "ok" /\ call'.args = call.args) =>
               /\ result' = "ok"
               /\ host_calls' = host_calls]_vars

====
